---- MODULE Spec2Model ----
(***************************************************************************)
(* Inventory ledger and balance reconciliation of the school supply        *)
(* tracker: the inventory_transactions ledger, the class distributions     *)
(* that are dual-written with it, the stock aggregator and the             *)
(* distribution/collection aggregator.                                     *)
(*                                                                         *)
(* Tables are bags of rows: the uuid primary key of a row is opaque, so    *)
(* two rows with the same content are interchangeable.  A Distribution     *)
(* keeps an identity (its position in dists) because ledger rows refer to  *)
(* it through distribution_id.                                             *)
(*                                                                         *)
(* A JavaScript value that is undefined is "" for a string, 0 for a        *)
(* quantity of a POST body (the handlers test them with ! and ??, which    *)
(* treat both alike) and {} for an optional field of a PUT body.           *)
(***************************************************************************)
EXTENDS Integers, Sequences, FiniteSets, Bags, TLC

\* ------------------------------------------------------------- bounds
MaxLedger == 3
MaxDist == 2
MaxEdits == 1
MaxLogs == 2

\* ------------------------------------------------------------ catalog
Items == {"i1", "i2"}
GhostItem == "ix"
NoThreshold == -1
NoDist == 0

\* inventory_items.low_stock_threshold; i2 has NULL in the column.
low_stock_threshold == [i \in Items |-> IF i = "i1" THEN 1 ELSE NoThreshold]

Statuses == {"pending", "cancelled", "deleted", "completed"}
TransactionTypes == {"purchase", "sale", "distribution", "return"}

Clients == {1, 2}

VARIABLES ledger, dists, logs, client, edits, entitlements

vars == <<ledger, dists, logs, client, edits, entitlements>>

\* ------------------------------------------------------------ helpers
Rows(bag) == BagToSet(bag)

One(r) == SetToBag({r})

RECURSIVE SumOver(_, _, _)
\* Array.reduce((sum, t) => sum + (t.f || 0), 0) over the rows of a bag.
SumOver(bag, rows, f) ==
  IF rows = {} THEN 0
  ELSE LET r == CHOOSE x \in rows : TRUE
       IN CopiesIn(r, bag) * f[r] + SumOver(bag, rows \ {r}, f)

Opt(field, old) == IF field = {} THEN old ELSE CHOOSE v \in field : TRUE

\* --------------------------------------------------- stock aggregator
\* The filter with the views' condition, status <> 'pending', in its place.
CompletedMutant(id) ==
  {r \in Rows(ledger) : r.item_id = id /\ r.status # "pending"}

\* .from("inventory_transactions").eq("item_id", id).eq("status", "completed")

CompletedTransactions(id) ==
  {r \in Rows(ledger) : r.item_id = id /\ r.status = "completed"}

\* The summary with the low-stock comparison strict.
calculateInventorySummaryMutant(id, transactions) ==
  LET totalInQuantity == SumOver(ledger, transactions, [r \in transactions |-> r.qty_in])
      totalOutQuantity == SumOver(ledger, transactions, [r \in transactions |-> r.qty_out])
      totalInCost == SumOver(ledger, transactions, [r \in transactions |-> r.in_cost])
      totalOutCost == SumOver(ledger, transactions, [r \in transactions |-> r.out_cost])
      currentStock == totalInQuantity - totalOutQuantity
      lowStockThreshold == IF low_stock_threshold[id] = NoThreshold THEN 0
                           ELSE low_stock_threshold[id]
  IN [id |-> id,
      current_stock |-> currentStock,
      total_in_quantity |-> totalInQuantity,
      total_out_quantity |-> totalOutQuantity,
      total_in_cost |-> totalInCost,
      total_out_cost |-> totalOutCost,
      low_stock_threshold |-> lowStockThreshold,
      is_low_stock |-> currentStock < lowStockThreshold]

\* Lines 183-255: the totals, the stock and the low-stock flag.
calculateInventorySummary(id, transactions) ==
  LET totalInQuantity == SumOver(ledger, transactions, [r \in transactions |-> r.qty_in])
      totalOutQuantity == SumOver(ledger, transactions, [r \in transactions |-> r.qty_out])
      totalInCost == SumOver(ledger, transactions, [r \in transactions |-> r.in_cost])
      totalOutCost == SumOver(ledger, transactions, [r \in transactions |-> r.out_cost])
      currentStock == totalInQuantity - totalOutQuantity
      lowStockThreshold == IF low_stock_threshold[id] = NoThreshold THEN 0
                           ELSE low_stock_threshold[id]
  IN [id |-> id,
      current_stock |-> currentStock,
      total_in_quantity |-> totalInQuantity,
      total_out_quantity |-> totalOutQuantity,
      total_in_cost |-> totalInCost,
      total_out_cost |-> totalOutCost,
      low_stock_threshold |-> lowStockThreshold,
      is_low_stock |-> currentStock <= lowStockThreshold]

\* A lookup that treats an empty transaction list as a failure.
getInventorySummaryMutant(id) ==
  IF id \notin Items \/ CompletedTransactions(id) = {} THEN {}
  ELSE {calculateInventorySummary(id, CompletedTransactions(id))}

\* The set holds the summary, or nothing when the item is not found (null).
getInventorySummary(id) ==
  IF id \notin Items THEN {}
  ELSE {calculateInventorySummary(id, CompletedTransactions(id))}

\* inventorySummary?.current_stock ?? 0
StockOrZero(id) ==
  IF getInventorySummary(id) = {} THEN 0
  ELSE (CHOOSE s \in getInventorySummary(id) : TRUE).current_stock

\* ------------------------------------------------------ client state
NoResp == [code |-> 0, err |-> "", body |-> {}]

NoReq == [none |-> TRUE]

Idle == [pc |-> "idle", op |-> "", req |-> NoReq, seen |-> 0, did |-> NoDist,
         resp |-> NoResp]

\* A finished request: what the client keeps is the response, and for a
\* request that passed validation the request it answers.
Done(op, req, code, err, body) ==
  [pc |-> "done", op |-> op, req |-> req, seen |-> 0, did |-> NoDist,
   resp |-> [code |-> code, err |-> err, body |-> body]]

CanStart(c) == client[c].pc \in {"idle", "done"}

Init ==
  /\ ledger = EmptyBag
  /\ dists = <<>>
  /\ logs = EmptyBag
  /\ client = [c \in Clients |-> Idle]
  /\ edits = 0
  /\ entitlements = {}

\* ------------------------------------------------- GET /:inventoryId
GetSummary(c, id) ==
  /\ CanStart(c)
  /\ client' = [client EXCEPT ![c] =
       IF getInventorySummary(id) = {}
       THEN Done("GetSummary", [item |-> id], 404, "not_found", {})
       ELSE Done("GetSummary", [item |-> id], 200, "", getInventorySummary(id))]
  /\ UNCHANGED <<ledger, dists, logs, edits, entitlements>>

\* ---------------------------------------------------------- POST /bulk
\* .from("inventory_items").select("id, name").order("name"): the ids.
getAllInventoryItems == <<"i1", "i2">>

\* The ids summarised whatever the request lists.
BulkIdsMutant(body) == getAllInventoryItems

\* Lines 93-104: the ids to summarise.  given = FALSE is a body without
\* inventory_ids (or with one that is no array).
BulkIds(body) ==
  IF ~body.given \/ Len(body.ids) = 0 THEN getAllInventoryItems
  ELSE SelectSeq(body.ids, LAMBDA id : \E k \in DOMAIN getAllInventoryItems :
                                         getAllInventoryItems[k] = id)

\* Promise.all of getInventorySummary over the ids, nulls filtered out.
getBulkInventorySummary(ids) ==
  LET found == SelectSeq(ids, LAMBDA id : getInventorySummary(id) # {})
  IN [k \in 1..Len(found) |-> CHOOSE s \in getInventorySummary(found[k]) : TRUE]

GetBulk(c, body) ==
  /\ CanStart(c)
  /\ client' = [client EXCEPT ![c] =
       IF Len(BulkIds(body)) = 0
       THEN Done("GetBulk", body, 400, "invalid_ids", <<>>)
       ELSE Done("GetBulk", body, 200, "", getBulkInventorySummary(BulkIds(body)))]
  /\ UNCHANGED <<ledger, dists, logs, edits, entitlements>>

\* --------------------------------------------- POST / (ledger create)
PendingLedgerInserts ==
  Cardinality({c \in Clients : client[c].pc \in {"sale_insert", "dist_insert", "ledger_insert"}})

PendingDistInserts == Cardinality({c \in Clients : client[c].pc = "dist_insert"})

LedgerRoom == BagCardinality(ledger) + PendingLedgerInserts < MaxLedger

DistRoom == Len(dists) + PendingDistInserts < MaxDist

\* The row with 'completed' for the default of the status column.
TransactionRowMutant(b) ==
  [item_id |-> b.item_id,
   transaction_type |-> b.transaction_type,
   qty_in |-> b.qty_in,
   qty_out |-> b.qty_out,
   in_cost |-> b.in_cost,
   out_cost |-> b.out_cost,
   status |-> IF b.status = "" THEN "completed" ELSE b.status,
   distribution_id |-> NoDist]

\* The row the database stores for an insert of {...body}: columns the body
\* leaves out take their defaults (qty 0, status 'pending', no distribution).
TransactionRow(b) ==
  [item_id |-> b.item_id,
   transaction_type |-> b.transaction_type,
   qty_in |-> b.qty_in,
   qty_out |-> b.qty_out,
   in_cost |-> b.in_cost,
   out_cost |-> b.out_cost,
   status |-> IF b.status = "" THEN "pending" ELSE b.status,
   distribution_id |-> NoDist]

\* Lines 818-822: the row inserted into class_inventory_distributions.
DistributionRow(b) ==
  [class_id |-> b.class_id,
   inventory_item_id |-> b.inventory_item_id,
   session_term_id |-> b.session_term_id,
   distributed_quantity |-> b.distributed_quantity,
   received_by |-> b.received_by]

\* A rejection that is sent after the Distribution has been inserted.
RejectMutant(c, op, req, code, err) ==
  /\ client' = [client EXCEPT ![c] = Done(op, req, code, err, {})]
  /\ dists' = IF op = "Distribute" /\ err = "insufficient_stock"
              THEN Append(dists, DistributionRow(req)) ELSE dists
  /\ UNCHANGED <<ledger, logs, edits, entitlements>>

\* An error response: nothing is written.
Reject(c, op, req, code, err) ==
  /\ client' = [client EXCEPT ![c] = Done(op, req, code, err, {})]
  /\ UNCHANGED <<ledger, dists, logs, edits, entitlements>>

\* Lines 482-511: the checks after the stock check, then the insert.
PostInsert(c, b) ==
  IF b.transaction_type = "purchase" /\ b.qty_in <= 0
  THEN Reject(c, "PostTransaction", NoReq, 400, "validation")
  ELSE IF b.qty_in > 0 /\ b.qty_out > 0
  THEN Reject(c, "PostTransaction", NoReq, 400, "validation")
  ELSE \E ok \in BOOLEAN :
         IF ok /\ b.item_id \in Items
         THEN /\ client[c].pc = "sale_insert" \/ LedgerRoom
              /\ ledger' = ledger (+) One(TransactionRow(b))
              /\ client' = [client EXCEPT ![c] =
                   Done("PostTransaction", NoReq, 201, "", {})]
              /\ UNCHANGED <<dists, logs, edits, entitlements>>
         ELSE Reject(c, "PostTransaction", NoReq, 500, "insert_failed")

\* Lines 449-480: validation and, for a sale, the stock check (an await).
PostTransaction(c, b) ==
  /\ CanStart(c)
  /\ IF b.item_id = "" \/ b.transaction_type = ""
     THEN Reject(c, "PostTransaction", NoReq, 400, "validation")
     ELSE IF b.transaction_type \notin {"purchase", "sale"}
     THEN Reject(c, "PostTransaction", NoReq, 400, "validation")
     ELSE IF b.transaction_type = "sale" /\ b.qty_out <= 0
     THEN Reject(c, "PostTransaction", NoReq, 400, "validation")
     ELSE IF b.transaction_type = "sale"
     THEN IF StockOrZero(b.item_id) < b.qty_out
          THEN Reject(c, "PostTransaction", b, 400, "insufficient_stock")
          ELSE /\ LedgerRoom
               /\ client' = [client EXCEPT ![c] =
                    [pc |-> "sale_insert", op |-> "PostTransaction", req |-> b,
                     seen |-> StockOrZero(b.item_id), did |-> NoDist, resp |-> NoResp]]
               /\ UNCHANGED <<ledger, dists, logs, edits, entitlements>>
     ELSE PostInsert(c, b)

PostSaleInsert(c) ==
  /\ client[c].pc = "sale_insert"
  /\ PostInsert(c, client[c].req)

\* ------------------------------------------ class_inventory_entitlements
\* A record of a request body; quantity is {} when the body has none.
EntitlementRecord(class, item, term, quantity) ==
  [class_id |-> class, inventory_item_id |-> item, session_term_id |-> term,
   quantity |-> quantity]

\* unique (class_id, inventory_item_id, session_term_id)
Triple(r) == <<r.class_id, r.inventory_item_id, r.session_term_id>>

\* The row a record becomes.
EntitlementRow(rec) ==
  [class_id |-> rec.class_id, inventory_item_id |-> rec.inventory_item_id,
   session_term_id |-> rec.session_term_id,
   quantity |-> CHOOSE q \in rec.quantity : TRUE]

\* !rec.class_id || !rec.inventory_item_id || !rec.session_term_id ||
\* rec.quantity === undefined || rec.quantity === null
InvalidRecord(rec) ==
  \/ rec.class_id = "" \/ rec.inventory_item_id = "" \/ rec.session_term_id = ""
  \/ rec.quantity = {}

\* quantity int not null check (quantity >= 0)
ViolatesCheck(rec) == \E q \in rec.quantity : q < 0

\* Two records of one statement with the same triple: INSERT ... ON CONFLICT
\* DO UPDATE refuses to affect a row a second time and the statement fails.
NamesTripleTwice(records) ==
  \E j, k \in DOMAIN records : j < k /\ Triple(records[j]) = Triple(records[k])

\* onConflict: "class_id,inventory_item_id,session_term_id": the row with the
\* triple of the record is rewritten, or the record is inserted.
UpsertOne(table, rec) ==
  {r \in table : Triple(r) # Triple(rec)} \cup {EntitlementRow(rec)}

RECURSIVE Upsert(_, _)
Upsert(table, records) ==
  IF records = <<>> THEN table
  ELSE Upsert(UpsertOne(table, Head(records)), Tail(records))

\* POST /bulk_upsert.  array = FALSE is a body that is no array.
BulkUpsert(c, body) ==
  /\ CanStart(c)
  /\ IF ~body.array \/ Len(body.records) = 0
     THEN Reject(c, "BulkUpsert", NoReq, 400, "validation")
     ELSE IF \E k \in DOMAIN body.records : InvalidRecord(body.records[k])
     THEN Reject(c, "BulkUpsert", NoReq, 400, "validation")
     ELSE IF \/ \E k \in DOMAIN body.records : ViolatesCheck(body.records[k])
             \/ NamesTripleTwice(body.records)
     THEN Reject(c, "BulkUpsert", body, 500, "database")
     ELSE /\ entitlements' = Upsert(entitlements, body.records)
          /\ client' = [client EXCEPT ![c] =
               Done("BulkUpsert", body, 200, "",
                    {EntitlementRow(body.records[k]) : k \in DOMAIN body.records})]
          /\ UNCHANGED <<ledger, dists, logs, edits>>

\* POST /: a plain insert, which the unique constraint refuses for a triple
\* that has a row.
CreateEntitlement(c, rec) ==
  /\ CanStart(c)
  /\ IF InvalidRecord(rec)
     THEN Reject(c, "CreateEntitlement", NoReq, 400, "validation")
     ELSE IF ViolatesCheck(rec) \/ \E r \in entitlements : Triple(r) = Triple(rec)
     THEN Reject(c, "CreateEntitlement", rec, 500, "database")
     ELSE /\ entitlements' = entitlements \cup {EntitlementRow(rec)}
          /\ client' = [client EXCEPT ![c] =
               Done("CreateEntitlement", rec, 201, "", {EntitlementRow(rec)})]
          /\ UNCHANGED <<ledger, dists, logs, edits>>

\* ------------------------------------- POST /distributions (Distribute)
\* The ledger row without its status, which the table defaults to 'pending'.
DistributionTransactionMutant(d, id) ==
  [item_id |-> d.inventory_item_id,
   transaction_type |-> "distribution",
   qty_in |-> 0,
   qty_out |-> d.distributed_quantity,
   in_cost |-> 0,
   out_cost |-> 0,
   status |-> "pending",
   distribution_id |-> id]

\* Lines 824-842: the ledger row written for a distribution.
DistributionTransaction(d, id) ==
  [item_id |-> d.inventory_item_id,
   transaction_type |-> "distribution",
   qty_in |-> 0,
   qty_out |-> d.distributed_quantity,
   in_cost |-> 0,
   out_cost |-> 0,
   status |-> "completed",
   distribution_id |-> id]

\* The comparison off by one.
InsufficientMutant(stock, qty) == stock + 1 < qty

\* The comparison with <= for <.
InsufficientAtBoundaryMutant(stock, qty) == stock <= qty

\* Lines 804-807: (current_stock ?? 0) < Number(distributed_quantity).

Insufficient(stock, qty) == stock < qty

\* The required-fields test with a cap by the entitlement of the triple.
MissingRequiredCappedMutant(b) ==
  \/ b.class_id = "" \/ b.inventory_item_id = "" \/ b.session_term_id = ""
  \/ b.distributed_quantity = 0 \/ b.received_by = ""
  \/ \E e \in entitlements : /\ Triple(e) = Triple(b)
                               /\ e.quantity < b.distributed_quantity

\* The required-fields test without received_by, as in its error message.
MissingRequiredMutant(b) ==
  \/ b.class_id = "" \/ b.inventory_item_id = "" \/ b.session_term_id = ""
  \/ b.distributed_quantity = 0

\* Lines 783-789: !body.class_id || ... || !body.received_by.
MissingRequired(b) ==
  \/ b.class_id = "" \/ b.inventory_item_id = "" \/ b.session_term_id = ""
  \/ b.distributed_quantity = 0 \/ b.received_by = ""

\* Lines 780-811: validation and the stock check (an await).
DistributeCheck(c, b) ==
  /\ CanStart(c)
  /\ IF MissingRequired(b)
     THEN Reject(c, "Distribute", NoReq, 400, "validation")
     ELSE IF b.distributed_quantity <= 0
     THEN Reject(c, "Distribute", NoReq, 400, "validation")
     ELSE IF Insufficient(StockOrZero(b.inventory_item_id), b.distributed_quantity)
     THEN Reject(c, "Distribute", b, 400, "insufficient_stock")
     ELSE /\ LedgerRoom
          /\ DistRoom
          /\ client' = [client EXCEPT ![c] =
               [pc |-> "dist_insert", op |-> "Distribute", req |-> b,
                seen |-> StockOrZero(b.inventory_item_id), did |-> NoDist,
                resp |-> NoResp]]
          /\ UNCHANGED <<ledger, dists, logs, edits, entitlements>>

\* What becomes of a request whose async handler throws: the router either
\* drops the rejected promise, and no response is ever sent (code 0), or hands
\* it to the default error handler, which answers 500; which one depends on
\* the version of express the build installs.
UnhandledOutcomes == {0, 500}

\* Lines 818-822: insert the Distribution.  On an error data is null and the
\* expression data.id of line 838 throws inside the async handler before the
\* ledger insert is issued.
DistributeInsert(c) ==
  /\ client[c].pc = "dist_insert"
  /\ \E ok \in BOOLEAN :
       IF ok /\ client[c].req.inventory_item_id \in Items
       THEN /\ dists' = Append(dists, DistributionRow(client[c].req))
            /\ client' = [client EXCEPT ![c].pc = "ledger_insert",
                                        ![c].did = Len(dists) + 1]
            /\ UNCHANGED <<ledger, logs, edits, entitlements>>
       ELSE \E code \in UnhandledOutcomes :
              Reject(c, "Distribute", client[c].req, code, "unhandled_rejection")

\* The ledger insert with a compensating delete of the Distribution on failure.
DistributeLedgerMutant(c) ==
  /\ client[c].pc = "ledger_insert"
  /\ \E ok \in BOOLEAN :
       IF ok
       THEN /\ ledger' = ledger (+)
                 One(DistributionTransaction(dists[client[c].did], client[c].did))
            /\ client' = [client EXCEPT ![c] =
                 [pc |-> "done", op |-> "Distribute", req |-> client[c].req,
                  seen |-> 0, did |-> client[c].did,
                  resp |-> [code |-> 201, err |-> "", body |-> {}]]]
            /\ UNCHANGED <<dists, logs, edits, entitlements>>
       ELSE /\ client' = [client EXCEPT ![c] =
                 [pc |-> "done", op |-> "Distribute", req |-> client[c].req,
                  seen |-> 0, did |-> client[c].did,
                  resp |-> [code |-> 500, err |-> "insert_failed", body |-> {}]]]
            /\ dists' = SubSeq(dists, 1, Len(dists) - 1)
            /\ UNCHANGED <<ledger, logs, edits, entitlements>>

\* Lines 824-847: insert the paired ledger row and respond.
DistributeLedger(c) ==
  /\ client[c].pc = "ledger_insert"
  /\ \E ok \in BOOLEAN :
       IF ok
       THEN /\ ledger' = ledger (+)
                 One(DistributionTransaction(dists[client[c].did], client[c].did))
            /\ client' = [client EXCEPT ![c] =
                 [pc |-> "done", op |-> "Distribute", req |-> client[c].req,
                  seen |-> 0, did |-> client[c].did,
                  resp |-> [code |-> 201, err |-> "", body |-> {}]]]
            /\ UNCHANGED <<dists, logs, edits, entitlements>>
       ELSE /\ client' = [client EXCEPT ![c] =
                 [pc |-> "done", op |-> "Distribute", req |-> client[c].req,
                  seen |-> 0, did |-> client[c].did,
                  resp |-> [code |-> 500, err |-> "insert_failed", body |-> {}]]]
            /\ UNCHANGED <<ledger, dists, logs, edits, entitlements>>

\* ---------------------------- PUT /distributions/:id (UpdateDistribution)
DistIds == 1..Len(dists)

UpdatedDistribution(d, body) ==
  [d EXCEPT !.distributed_quantity = Opt(body.distributed_quantity, @),
            !.inventory_item_id = Opt(body.inventory_item_id, @)]

\* Lines 883-893: update the Distribution; any error answers 404.  The table
\* checks distributed_quantity > 0 and the item reference.
UpdateDistribution(c, id, body) ==
  /\ CanStart(c)
  /\ \E ok \in BOOLEAN :
       IF /\ ok
          /\ id \in DistIds
          /\ UpdatedDistribution(dists[id], body).distributed_quantity > 0
          /\ UpdatedDistribution(dists[id], body).inventory_item_id \in Items
       THEN /\ edits < MaxEdits
            /\ edits' = edits + 1
            /\ dists' = [dists EXCEPT ![id] = UpdatedDistribution(@, body)]
            /\ client' = [client EXCEPT ![c] =
                 [pc |-> "update_ledger", op |-> "UpdateDistribution", req |-> body,
                  seen |-> 0, did |-> id, resp |-> NoResp]]
            /\ UNCHANGED <<ledger, logs, entitlements>>
       ELSE Reject(c, "UpdateDistribution", NoReq, 404, "not_found_or_failed")

PairedRows(id) == {r \in Rows(ledger) : r.distribution_id = id}

PairedCount(id) == SumOver(ledger, PairedRows(id), [r \in PairedRows(id) |-> 1])

\* An update that moves the ledger row to the item the body names.
UpdatedPairedRowItemMutant(r, body) ==
  [r EXCEPT !.qty_out = Opt(body.distributed_quantity, @),
            !.item_id = Opt(body.inventory_item_id, @)]

\* An update that leaves the ledger row as it was.
UpdatedPairedRowMutant(r, body) == r

\* Line 898: .update({ qty_out: body.distributed_quantity }).
UpdatedPairedRow(r, body) ==
  [r EXCEPT !.qty_out = Opt(body.distributed_quantity, @)]

\* Lines 895-907: rewrite qty_out of the rows with distribution_id = id and
\* respond.  .single() fails unless exactly one row comes back, and PostgREST
\* then rolls the statement back.  A body without distributed_quantity sends
\* qty_out: undefined, which is dropped from the update.
UpdateDistributionLedger(c) ==
  /\ client[c].pc = "update_ledger"
  /\ LET id == client[c].did
         body == client[c].req
         finish(code, err, data) ==
           client' = [client EXCEPT ![c] =
             [pc |-> "done", op |-> "UpdateDistribution", req |-> body, seen |-> 0,
              did |-> id, resp |-> [code |-> code, err |-> err, body |-> data]]]
     IN \E ok \in BOOLEAN :
          IF ok /\ PairedCount(id) = 1
          THEN LET r == CHOOSE x \in PairedRows(id) : TRUE
                   new == UpdatedPairedRow(r, body)
               IN /\ ledger' = (ledger (-) One(r)) (+) One(new)
                  /\ finish(200, "", {})
                  /\ UNCHANGED <<dists, logs, edits, entitlements>>
          ELSE /\ finish(500, "update_failed", {})
               /\ UNCHANGED <<ledger, dists, logs, edits, entitlements>>

\* ------------------------------------------ PUT /:id and DELETE /:id
UpdatedTransaction(r, body) ==
  [r EXCEPT !.status = Opt(body.status, @),
            !.qty_in = Opt(body.qty_in, @),
            !.qty_out = Opt(body.qty_out, @)]

\* Lines 592-609: update({...body}) of the row with this id, unvalidated; the
\* table checks the status.  known = FALSE is an id no row has.
PutTransaction(c, known, r, body) ==
  /\ CanStart(c)
  /\ \E ok \in BOOLEAN :
       IF ok /\ known /\ UpdatedTransaction(r, body).status \in Statuses
       THEN /\ BagIn(r, ledger)
            /\ edits < MaxEdits
            /\ edits' = edits + 1
            /\ ledger' = (ledger (-) One(r)) (+) One(UpdatedTransaction(r, body))
            /\ client' = [client EXCEPT ![c] =
                 Done("PutTransaction", NoReq, 200, "", {})]
            /\ UNCHANGED <<dists, logs, entitlements>>
       ELSE Reject(c, "PutTransaction", NoReq, 404, "not_found_or_failed")

\* Lines 611-626: delete the row with this id; deleting no row is no error.
DeleteTransaction(c, known, r) ==
  /\ CanStart(c)
  /\ \E ok \in BOOLEAN :
       IF ~ok
       THEN Reject(c, "DeleteTransaction", NoReq, 404, "not_found_or_failed")
       ELSE IF known
       THEN /\ BagIn(r, ledger)
            /\ edits < MaxEdits
            /\ edits' = edits + 1
            /\ ledger' = ledger (-) One(r)
            /\ client' = [client EXCEPT ![c] =
                 Done("DeleteTransaction", NoReq, 200, "", {})]
            /\ UNCHANGED <<dists, logs, entitlements>>
       ELSE Reject(c, "DeleteTransaction", NoReq, 200, "")

\* ------------------------------------------------- GET /low/stock
\* VIEW low_stock_items: the ledger rows joined to an item are those with
\* status <> 'pending'; an item without such rows has stock COALESCE(NULL, 0);
\* a NULL threshold makes the HAVING comparison NULL, which drops the item.
ViewTransactions(id) ==
  {r \in Rows(ledger) : r.item_id = id /\ r.status # "pending"}

ViewStock(id) ==
  SumOver(ledger, ViewTransactions(id), [r \in ViewTransactions(id) |-> r.qty_in])
  - SumOver(ledger, ViewTransactions(id), [r \in ViewTransactions(id) |-> r.qty_out])

low_stock_items ==
  {i \in Items : /\ low_stock_threshold[i] # NoThreshold
                 /\ ViewStock(i) <= low_stock_threshold[i]}

\* Lines 291-296: re-derive each listed item's summary, keep the low ones.
getLowStockItems ==
  {s \in UNION {getInventorySummary(i) : i \in low_stock_items} : s.is_low_stock}

GetLowStockItems(c) ==
  /\ CanStart(c)
  /\ client' = [client EXCEPT ![c] =
       Done("GetLowStockItems", NoReq, 200, "", getLowStockItems)]
  /\ UNCHANGED <<ledger, dists, logs, edits, entitlements>>

\* ------------------------- GET /distribution-collection/query
RECURSIVE SumSet(_, _)
SumSet(S, f) ==
  IF S = {} THEN 0
  ELSE LET k == CHOOSE x \in S : TRUE IN f[k] + SumSet(S \ {k}, f)

\* distQuery: each filter that is set adds an .eq() on its column.
MatchingDistributions(f) ==
  {k \in DistIds :
     /\ f.inventory_item_id = "" \/ dists[k].inventory_item_id = f.inventory_item_id
     /\ f.class_id = "" \/ dists[k].class_id = f.class_id
     /\ f.session_term_id = "" \/ dists[k].session_term_id = f.session_term_id
     /\ f.teacher_id = "" \/ dists[k].received_by = f.teacher_id}

\* The collection query without its teacher filter.
MatchingLogsMutant(f) ==
  {l \in Rows(logs) :
     /\ l.received
     /\ f.inventory_item_id = "" \/ l.inventory_item_id = f.inventory_item_id
     /\ f.class_id = "" \/ l.class_id = f.class_id
     /\ f.session_term_id = "" \/ l.session_term_id = f.session_term_id}

\* logQuery: .eq("received", true) and the same filters, teacher on given_by.
MatchingLogs(f) ==
  {l \in Rows(logs) :
     /\ l.received
     /\ f.inventory_item_id = "" \/ l.inventory_item_id = f.inventory_item_id
     /\ f.class_id = "" \/ l.class_id = f.class_id
     /\ f.session_term_id = "" \/ l.session_term_id = f.session_term_id
     /\ f.teacher_id = "" \/ l.given_by = f.teacher_id}

\* The balance with its operands exchanged.
SummaryEntryMutant(key, f) ==
  LET ds == {k \in MatchingDistributions(f) : dists[k].inventory_item_id = key}
      ls == {l \in MatchingLogs(f) : l.inventory_item_id = key}
      received == SumSet(ds, [k \in ds |-> dists[k].distributed_quantity])
      distributed == SumOver(logs, ls, [l \in ls |-> l.qty])
  IN [inventory_item_id |-> key,
      total_received_quantity |-> received,
      total_distributed_quantity |-> distributed,
      balance_quantity |-> distributed - received]

\* summaryMap[key] after the two loops and the balance loop.
SummaryEntry(key, f) ==
  LET ds == {k \in MatchingDistributions(f) : dists[k].inventory_item_id = key}
      ls == {l \in MatchingLogs(f) : l.inventory_item_id = key}
      received == SumSet(ds, [k \in ds |-> dists[k].distributed_quantity])
      distributed == SumOver(logs, ls, [l \in ls |-> l.qty])
  IN [inventory_item_id |-> key,
      total_received_quantity |-> received,
      total_distributed_quantity |-> distributed,
      balance_quantity |-> received - distributed]

getDistributionSummary(f) ==
  {SummaryEntry(key, f) :
     key \in {dists[k].inventory_item_id : k \in MatchingDistributions(f)}
             \cup {l.inventory_item_id : l \in MatchingLogs(f)}}

\* The aggregation that removes the collection rows it has counted.
GetDistributionSummaryMutant(c, f) ==
  /\ CanStart(c)
  /\ client' = [client EXCEPT ![c] =
       Done("GetDistributionSummary", f, 200, "", getDistributionSummary(f))]
  /\ logs' = [l \in Rows(logs) \ MatchingLogs(f) |-> logs[l]]
  /\ UNCHANGED <<ledger, dists, edits, entitlements>>

GetDistributionSummary(c, f) ==
  /\ CanStart(c)
  /\ client' = [client EXCEPT ![c] =
       Done("GetDistributionSummary", f, 200, "", getDistributionSummary(f))]
  /\ UNCHANGED <<ledger, dists, logs, edits, entitlements>>

\* ------------------------------- student_inventory_log: POST / and PUT /:id
\* The columns of a collection row that the aggregator reads.
LogRow(b) ==
  [class_id |-> b.class_id,
   session_term_id |-> b.session_term_id,
   inventory_item_id |-> b.inventory_item_id,
   qty |-> b.qty,
   received |-> b.received,
   given_by |-> b.teacher_id]

\* POST /: insert {...body, given_by: req.user.teacher_id}; qty 0 stands for
\* a missing or non-positive qty and teacher_id "" for a user who is no teacher.
LogCreate(c, b) ==
  /\ CanStart(c)
  /\ IF \/ b.class_id = "" \/ b.session_term_id = "" \/ b.inventory_item_id = ""
        \/ b.qty <= 0 \/ b.teacher_id = ""
     THEN Reject(c, "LogCreate", NoReq, 400, "validation")
     ELSE \E ok \in BOOLEAN :
            IF ok /\ b.inventory_item_id \in Items
            THEN /\ BagCardinality(logs) < MaxLogs
                 /\ logs' = logs (+) One(LogRow(b))
                 /\ client' = [client EXCEPT ![c] = Done("LogCreate", NoReq, 201, "", {})]
                 /\ UNCHANGED <<ledger, dists, edits, entitlements>>
            ELSE Reject(c, "LogCreate", NoReq, 500, "insert_failed")

\* PUT /:id: update({received, qty, ...}) of the row with this id.
LogPut(c, known, l, body) ==
  /\ CanStart(c)
  /\ LET new == [l EXCEPT !.received = Opt(body.received, @), !.qty = Opt(body.qty, @)]
     IN \E ok \in BOOLEAN :
          IF ok /\ known /\ new.qty > 0
          THEN /\ BagIn(l, logs)
               /\ logs' = (logs (-) One(l)) (+) One(new)
               /\ client' = [client EXCEPT ![c] = Done("LogPut", NoReq, 200, "", {})]
               /\ UNCHANGED <<ledger, dists, edits, entitlements>>
          ELSE Reject(c, "LogPut", NoReq, 404, "not_found_or_failed")

\* ------------------------------------------------------ request inputs
Classes == {"c1"}
Terms == {"t1"}
Teachers == {"T1", "T2"}
Quantities == {1, 2}
CreateStatuses == {"", "completed"}

\* A body states its costs at 1 a unit.
PostBody(item, type, qin, qout, status) ==
  [item_id |-> item, transaction_type |-> type, qty_in |-> qin, qty_out |-> qout,
   in_cost |-> qin, out_cost |-> qout, status |-> status]

\* Bodies the handler rejects, one for each check.
BadPostBodies ==
  {PostBody("", "purchase", 1, 0, "completed"),
   PostBody("i1", "", 1, 0, "completed"),
   PostBody("i1", "distribution", 0, 1, "completed"),
   PostBody("i1", "purchase", 0, 0, "completed"),
   PostBody("i1", "sale", 0, 0, "completed"),
   PostBody("i1", "purchase", 1, 1, "completed"),
   PostBody("i1", "sale", 1, 1, "completed"),
   PostBody(GhostItem, "purchase", 1, 0, "completed"),
   PostBody(GhostItem, "sale", 0, 1, "completed")}

\* Completed purchases: the stock the coordinator distributes.
StockingBodies ==
  {PostBody(i, "purchase", 1, 0, "completed") : i \in Items}

PostBodies ==
  {PostBody("i1", "purchase", q, 0, s) : q \in Quantities, s \in CreateStatuses}
  \cup {PostBody("i1", "sale", 0, 1, s) : s \in CreateStatuses}
  \cup {PostBody("i2", "purchase", 1, 0, "completed"),
        PostBody("i1", "purchase", 1, 0, "cancelled")}
  \cup BadPostBodies

DistributeBody(class, item, term, qty, teacher) ==
  [class_id |-> class, inventory_item_id |-> item, session_term_id |-> term,
   distributed_quantity |-> qty, received_by |-> teacher]

GoodDistributeBodies ==
  {DistributeBody("c1", "i1", "t1", q, "T1") : q \in Quantities}

DistributeBodies ==
  GoodDistributeBodies
  \cup {DistributeBody("c1", GhostItem, "t1", 1, "T1"),
        DistributeBody("c1", "i2", "t1", 2, "T1"),
        DistributeBody("", "i1", "t1", 1, "T1"),
        DistributeBody("c1", "", "t1", 1, "T1"),
        DistributeBody("c1", "i1", "", 1, "T1"),
        DistributeBody("c1", "i1", "t1", 0, "T1"),
        DistributeBody("c1", "i1", "t1", -1, "T1"),
        DistributeBody("c1", "i1", "t1", 1, "")}

UpdateBodies ==
  {[distributed_quantity |-> q, inventory_item_id |-> {}] : q \in {{}, {0}, {1}, {2}}}

PutBody(status, qin, qout) == [status |-> status, qty_in |-> qin, qty_out |-> qout]

StatusPutBodies == {PutBody({s}, {}, {}) : s \in {"cancelled", "deleted", "archived"}}

QtyPutBodies == {PutBody({}, {}, {1})}

NoRow == PostBody("", "", 0, 0, "")

\* --------------------------- Spec: the coordinator, one client, serially
Coordinator(c) ==
  \/ \E b \in StockingBodies \cup BadPostBodies : PostTransaction(c, b)
  \/ PostSaleInsert(c)
  \/ \E b \in DistributeBodies : DistributeCheck(c, b)
  \/ DistributeInsert(c)
  \/ DistributeLedger(c)
  \/ \E id \in 1..(MaxDist + 1), b \in UpdateBodies : UpdateDistribution(c, id, b)
  \/ UpdateDistributionLedger(c)
  \/ \E r \in Rows(ledger) : PutTransaction(c, TRUE, r, PutBody({}, {}, {2}))
  \/ PutTransaction(c, FALSE, NoRow, PutBody({}, {}, {2}))
  \/ \E r \in Rows(ledger) : DeleteTransaction(c, TRUE, r)
  \/ DeleteTransaction(c, FALSE, NoRow)

Next == Coordinator(1)

Spec == Init /\ [][Next]_vars

\* -------------- SpecStock: the stock aggregator over a ledger callers write
Stock(c) ==
  \/ \E id \in Items \cup {GhostItem} : GetSummary(c, id)
  \/ GetLowStockItems(c)
  \/ \E b \in PostBodies : PostTransaction(c, b)
  \/ PostSaleInsert(c)
  \/ \E r \in Rows(ledger), b \in StatusPutBodies \cup QtyPutBodies :
       PutTransaction(c, TRUE, r, b)
  \/ \E b \in StatusPutBodies : PutTransaction(c, FALSE, NoRow, b)
  \/ \E r \in Rows(ledger) : DeleteTransaction(c, TRUE, r)
  \/ DeleteTransaction(c, FALSE, NoRow)

NextStock == Stock(1)

SpecStock == Init /\ [][NextStock]_vars

\* ------------------- SpecConcurrent: two clients whose requests interleave
Concurrent(c) ==
  \/ \E q \in Quantities : PostTransaction(c, PostBody("i1", "purchase", q, 0, "completed"))
  \/ \E b \in GoodDistributeBodies : DistributeCheck(c, b)
  \/ DistributeInsert(c)
  \/ DistributeLedger(c)

NextConcurrent == \E c \in Clients : Concurrent(c)

SpecConcurrent == Init /\ [][NextConcurrent]_vars

\* ------- SpecCollect: the collection aggregator over distributions and logs
LogBody(class, term, item, qty, received, teacher) ==
  [class_id |-> class, session_term_id |-> term, inventory_item_id |-> item,
   qty |-> qty, received |-> received, teacher_id |-> teacher]

LogBodies ==
  {LogBody("c1", "t1", i, 1, r, t) : i \in Items, r \in BOOLEAN, t \in Teachers}
  \cup {LogBody("", "t1", "i1", 1, TRUE, "T1"),
        LogBody("c1", "t1", "i1", 0, TRUE, "T1"),
        LogBody("c1", "t1", "i1", 1, TRUE, ""),
        LogBody("c1", "t1", GhostItem, 1, TRUE, "T1")}

LogPutBodies ==
  {[received |-> {r}, qty |-> {}] : r \in BOOLEAN} \cup {[received |-> {}, qty |-> {0}]}

NoLog == LogRow(LogBody("", "", "", 0, FALSE, ""))

Filter(item, class, term, teacher) ==
  [inventory_item_id |-> item, class_id |-> class, session_term_id |-> term,
   teacher_id |-> teacher]

Filters ==
  {Filter(i, k, t, g) : i \in Items \cup {""}, k \in {"", "c1", "c2"},
                        t \in Terms \cup {""}, g \in Teachers \cup {""}}

QueryFilters ==
  {Filter("", "", "", ""), Filter("i1", "", "", ""), Filter("", "", "", "T1"),
   Filter("", "c2", "", "")}

\* Distribution tables that Distribute can have written: T1 received 1 of an
\* item and T2 received 2, any number of times.  The aggregator does not
\* depend on the order of the rows, so one order stands for each table.
CollectRows ==
  <<DistributionRow(DistributeBody("c1", "i1", "t1", 1, "T1")),
    DistributionRow(DistributeBody("c1", "i2", "t1", 1, "T1")),
    DistributionRow(DistributeBody("c1", "i1", "t1", 2, "T2")),
    DistributionRow(DistributeBody("c1", "i2", "t1", 2, "T2"))>>

CollectDistributions ==
  UNION {{[k \in 1..n |-> CollectRows[g[k]]] :
            g \in {h \in [1..n -> 1..Len(CollectRows)] :
                     \A j \in 1..n, k \in 1..n : j <= k => h[j] <= h[k]}}
           : n \in 0..MaxDist}

InitCollect ==
  /\ ledger = EmptyBag
  /\ dists \in CollectDistributions
  /\ logs = EmptyBag
  /\ client = [c \in Clients |-> Idle]
  /\ edits = 0
  /\ entitlements = {}

Collect(c) ==
  \/ \E b \in LogBodies : LogCreate(c, b)
  \/ \E l \in Rows(logs), b \in LogPutBodies : LogPut(c, TRUE, l, b)
  \/ \E b \in LogPutBodies : LogPut(c, FALSE, NoLog, b)
  \/ \E f \in QueryFilters : GetDistributionSummary(c, f)

NextCollect == Collect(1)

SpecCollect == InitCollect /\ [][NextCollect]_vars

\* ------- SpecScenario: a purchase of 100 distributed to two classes, serially
ScenarioBodies ==
  {DistributeBody("c1", "i1", "t1", 30, "T1"),
   DistributeBody("c2", "i1", "t1", 80, "T1"),
   DistributeBody("c2", "i1", "t1", 70, "T1")}

Scenario(c) ==
  \/ PostTransaction(c, PostBody("i1", "purchase", 100, 0, "completed"))
  \/ \E b \in ScenarioBodies : DistributeCheck(c, b)
  \/ DistributeInsert(c)
  \/ DistributeLedger(c)

NextScenario == Scenario(1)

SpecScenario == Init /\ [][NextScenario]_vars

\* ------- SpecDistribute: stocking and Distribute alone, every kind of body
Distribute(c) ==
  \/ \E b \in StockingBodies : PostTransaction(c, b)
  \/ \E b \in DistributeBodies : DistributeCheck(c, b)
  \/ DistributeInsert(c)
  \/ DistributeLedger(c)

NextDistribute == Distribute(1)

SpecDistribute == Init /\ [][NextDistribute]_vars

\* ------------- SpecBulk: the bulk summary beside the summary of one item
BulkBody(given, ids) == [given |-> given, ids |-> ids]

BulkBodies ==
  {BulkBody(FALSE, <<>>), BulkBody(TRUE, <<>>), BulkBody(TRUE, <<"i1">>),
   BulkBody(TRUE, <<GhostItem>>), BulkBody(TRUE, <<"i2", GhostItem, "i1">>),
   BulkBody(TRUE, <<"i1", "i1">>)}

BulkStockBodies ==
  {PostBody("i1", "purchase", q, 0, s) : q \in Quantities, s \in CreateStatuses}
  \cup {PostBody("i2", "purchase", 1, 0, "completed")}

Bulk(c) ==
  \/ \E b \in BulkBodies : GetBulk(c, b)
  \/ \E id \in Items \cup {GhostItem} : GetSummary(c, id)
  \/ \E b \in BulkStockBodies : PostTransaction(c, b)
  \/ \E r \in Rows(ledger) : PutTransaction(c, TRUE, r, PutBody({"cancelled"}, {}, {}))

NextBulk == Bulk(1)

SpecBulk == Init /\ [][NextBulk]_vars

\* ----- SpecEntitlement: the entitlement registry beside stocking and Distribute
UpsertBody(array, records) == [array |-> array, records |-> records]

EntitlementRecords ==
  {EntitlementRecord("c1", "i1", "t1", {q}) : q \in {-1, 1, 2}}
  \cup {EntitlementRecord("c1", "i2", "t1", {1}),
        EntitlementRecord("c1", "i1", "t1", {}),
        EntitlementRecord("", "i1", "t1", {1})}

UpsertBodies ==
  {UpsertBody(FALSE, <<>>), UpsertBody(TRUE, <<>>)}
  \cup {UpsertBody(TRUE, <<r>>) : r \in EntitlementRecords}
  \cup {UpsertBody(TRUE, <<EntitlementRecord("c1", "i1", "t1", {2}),
                           EntitlementRecord("c1", "i2", "t1", {1})>>),
        UpsertBody(TRUE, <<EntitlementRecord("c1", "i1", "t1", {1}),
                           EntitlementRecord("c1", "i1", "t1", {2})>>)}

EntitledDistributeBodies ==
  GoodDistributeBodies
  \cup {DistributeBody("c1", "i2", "t1", 2, "T1"),
        DistributeBody("c1", "i1", "t1", 1, "")}

Entitlement(c) ==
  \/ \E b \in UpsertBodies : BulkUpsert(c, b)
  \/ \E r \in EntitlementRecords : CreateEntitlement(c, r)
  \/ \E b \in StockingBodies : PostTransaction(c, b)
  \/ \E b \in EntitledDistributeBodies : DistributeCheck(c, b)
  \/ DistributeInsert(c)
  \/ DistributeLedger(c)

NextEntitlement == Entitlement(1)

SpecEntitlement == Init /\ [][NextEntitlement]_vars

\* ------ SpecRead: the four read aggregations over tables that callers write
ReadLogBodies ==
  {LogBody("c1", "t1", "i1", 1, r, "T1") : r \in BOOLEAN}

ReadBulkBodies ==
  {BulkBody(FALSE, <<>>), BulkBody(TRUE, <<GhostItem>>),
   BulkBody(TRUE, <<"i2", GhostItem, "i1">>)}

Read(c) ==
  \/ \E id \in Items \cup {GhostItem} : GetSummary(c, id)
  \/ \E b \in ReadBulkBodies : GetBulk(c, b)
  \/ GetLowStockItems(c)
  \/ \E f \in QueryFilters : GetDistributionSummary(c, f)
  \/ \E b \in StockingBodies : PostTransaction(c, b)
  \/ \E b \in GoodDistributeBodies : DistributeCheck(c, b)
  \/ DistributeInsert(c)
  \/ DistributeLedger(c)
  \/ \E b \in ReadLogBodies : LogCreate(c, b)

NextRead == Read(1)

SpecRead == Init /\ [][NextRead]_vars

\* ------- SpecUpdate: UpdateDistribution with bodies that change quantity, item
UpdateItemBodies ==
  {[distributed_quantity |-> q, inventory_item_id |-> i] :
     q \in {{}, {2}}, i \in {{}, {"i2"}}}
  \cup {[distributed_quantity |-> {0}, inventory_item_id |-> {}],
        [distributed_quantity |-> {}, inventory_item_id |-> {GhostItem}]}

Update(c) ==
  \/ \E b \in StockingBodies \cup {PostBody("i1", "sale", 0, 1, "completed")} :
       PostTransaction(c, b)
  \/ PostSaleInsert(c)
  \/ \E b \in GoodDistributeBodies : DistributeCheck(c, b)
  \/ DistributeInsert(c)
  \/ DistributeLedger(c)
  \/ \E id \in 1..(MaxDist + 1), b \in UpdateItemBodies : UpdateDistribution(c, id, b)
  \/ UpdateDistributionLedger(c)

NextUpdate == Update(1)

SpecUpdate == Init /\ [][NextUpdate]_vars

\* ------ SpecCreate: ledger creates of every status, then sales and Distribute
CreateBodies ==
  {PostBody("i1", "purchase", q, 0, s) : q \in Quantities, s \in CreateStatuses}
  \cup {PostBody("i1", "sale", 0, q, s) : q \in Quantities, s \in CreateStatuses}
  \cup {PostBody("i1", "purchase", 1, 0, "cancelled"),
        PostBody("i2", "purchase", 1, 0, "completed"),
        PostBody(GhostItem, "sale", 0, 1, "completed")}

Create(c) ==
  \/ \E b \in CreateBodies : PostTransaction(c, b)
  \/ PostSaleInsert(c)
  \/ \E b \in GoodDistributeBodies : DistributeCheck(c, b)
  \/ DistributeInsert(c)
  \/ DistributeLedger(c)

NextCreate == Create(1)

SpecCreate == Init /\ [][NextCreate]_vars

\* ------------------------------- get_inventory_balance, getInventoryBalance
\* LEFT JOIN student_inventory_log sil ON item, class and term equal and
\* sil.received = TRUE: the collection rows joined to Distribution k.
JoinedLogs(k) ==
  {l \in Rows(logs) : /\ l.received
                      /\ l.inventory_item_id = dists[k].inventory_item_id
                      /\ l.class_id = dists[k].class_id
                      /\ l.session_term_id = dists[k].session_term_id}

\* The rows of the join that pass the WHERE clause: a Distribution with each
\* collection row joined to it, or with NULLs (NoLog) when none is.  The
\* teacher filter holds when either side of the row has the teacher.
JoinRows(f) ==
  {p \in UNION {{<<k, l>> : l \in IF JoinedLogs(k) = {} THEN {NoLog} ELSE JoinedLogs(k)}
                  : k \in DistIds} :
     /\ f.inventory_item_id = "" \/ dists[p[1]].inventory_item_id = f.inventory_item_id
     /\ f.class_id = "" \/ dists[p[1]].class_id = f.class_id
     /\ f.session_term_id = "" \/ dists[p[1]].session_term_id = f.session_term_id
     /\ \/ f.teacher_id = ""
        \/ dists[p[1]].received_by = f.teacher_id
        \/ (p[2] # NoLog /\ p[2].given_by = f.teacher_id)}

\* How many times the join holds the pair: once for each copy of the
\* collection row.
JoinCopies(p) == IF p[2] = NoLog THEN 1 ELSE CopiesIn(p[2], logs)

\* GROUP BY cid.inventory_item_id: the sums over the rows of the join.
BalanceRow(item, f) ==
  LET rows == {p \in JoinRows(f) : dists[p[1]].inventory_item_id = item}
      total_distributed ==
        SumSet(rows, [p \in rows |-> JoinCopies(p) * dists[p[1]].distributed_quantity])
      total_issued ==
        SumSet(rows, [p \in rows |-> IF p[2] = NoLog THEN 0 ELSE JoinCopies(p) * p[2].qty])
  IN [inventory_item_id |-> item,
      total_distributed |-> total_distributed,
      total_issued_to_students |-> total_issued,
      balance_quantity |-> total_distributed - total_issued]

get_inventory_balance(f) ==
  {BalanceRow(item, f) : item \in {dists[p[1]].inventory_item_id : p \in JoinRows(f)}}

\* supabase.rpc("get_inventory_balance", filters): the rows, as returned.
GetInventoryBalance(c, f) ==
  /\ CanStart(c)
  /\ client' = [client EXCEPT ![c] =
       Done("GetInventoryBalance", f, 200, "", get_inventory_balance(f))]
  /\ UNCHANGED <<ledger, dists, logs, edits, entitlements>>

\* ---- SpecBalance: the two balance reports over the same distributions, logs
BalanceLogBodies ==
  {LogBody("c1", "t1", "i1", 1, r, t) : r \in BOOLEAN, t \in Teachers}

Balance(c) ==
  \/ \E b \in BalanceLogBodies : LogCreate(c, b)
  \/ \E f \in QueryFilters : GetDistributionSummary(c, f)
  \/ \E f \in QueryFilters : GetInventoryBalance(c, f)

NextBalance == Balance(1)

SpecBalance == InitCollect /\ [][NextBalance]_vars

\* ---------------------------------------------------------- properties
RECURSIVE CompletedNet(_, _)
\* The stock of an item, row by row: quantity_in less quantity_out of each
\* ledger row of the item whose status is completed.
CompletedNet(bag, i) ==
  IF BagToSet(bag) = {} THEN 0
  ELSE LET r == CHOOSE x \in BagToSet(bag) : TRUE
       IN (IF r.item_id = i /\ r.status = "completed" THEN r.qty_in - r.qty_out ELSE 0)
          + CompletedNet(bag (-) One(r), i)

\* C1: for every item, in every reachable state, the current_stock that
\* GetSummary computes and returns is the sum of quantity_in of the item's
\* completed ledger rows less the sum of their quantity_out; rows of any other
\* status and rows of other items do not count.
C1_SummaryIsCompletedNet ==
  /\ \A i \in Items : \A s \in getInventorySummary(i) :
       s.current_stock = CompletedNet(ledger, i)
  /\ \A c \in Clients :
       (client[c].op = "GetSummary" /\ client[c].resp.code = 200) =>
         \A s \in client[c].resp.body :
           /\ s.id = client[c].req.item
           /\ s.current_stock = CompletedNet(ledger, s.id)

\* A summary of stock 1 was returned for an item that has a completed outflow
\* and an inflow that is not completed.
C1_Witness ==
  /\ client[1].op = "GetSummary"
  /\ client[1].resp.code = 200
  /\ \E s \in client[1].resp.body :
       /\ s.current_stock = 1
       /\ \E r \in Rows(ledger) :
            r.item_id = s.id /\ r.status # "completed" /\ r.qty_in > 0
       /\ \E r \in Rows(ledger) :
            r.item_id = s.id /\ r.status = "completed" /\ r.qty_out > 0

\* C2: with Distribute calls run one after another, a call with valid
\* arguments whose quantity exceeds the item's current stock does not get past
\* the stock check (it is answered insufficient-stock): a call that is past
\* the check asked for no more than the stock, so once the stock is exhausted
\* none succeeds, and a call that succeeded left the stock non-negative.
C2_InsufficientStockFails ==
  \A c \in Clients :
    client[c].op = "Distribute" =>
      /\ client[c].pc \in {"dist_insert", "ledger_insert"} =>
           /\ client[c].req.distributed_quantity
                <= CompletedNet(ledger, client[c].req.inventory_item_id)
           /\ CompletedNet(ledger, client[c].req.inventory_item_id) > 0
      /\ (client[c].pc = "done" /\ client[c].resp.code = 201) =>
           CompletedNet(ledger, client[c].req.inventory_item_id) >= 0

\* A Distribute was answered insufficient-stock for an item whose stock an
\* earlier distribution had exhausted.
C2_Witness ==
  /\ client[1].op = "Distribute"
  /\ client[1].pc = "done"
  /\ client[1].resp.err = "insufficient_stock"
  /\ client[1].req.inventory_item_id = "i1"
  /\ CompletedNet(ledger, "i1") = 0
  /\ \E d \in DistIds : dists[d].inventory_item_id = "i1" /\ PairedCount(d) = 1

\* C3: the step that completes a successful Distribute(class, item, term, q,
\* receiver) adds exactly one ledger row: kind distribution, status completed,
\* quantity_out q, the item, and the id of the Distribution the call created,
\* which no row referred to before; the item's stock is q lower than the stock
\* the call read, and no other item's stock changes.
C3_DistributeAddsOneRow ==
  [][\A c \in Clients :
       (client[c].pc = "ledger_insert" /\ client'[c].pc = "done"
        /\ client'[c].resp.code = 201) =>
         LET b == client[c].req
             d == client[c].did
             row == [item_id |-> b.inventory_item_id,
                     transaction_type |-> "distribution",
                     qty_in |-> 0,
                     qty_out |-> b.distributed_quantity,
                     in_cost |-> 0,
                     out_cost |-> 0,
                     status |-> "completed",
                     distribution_id |-> d]
         IN /\ d = Len(dists)
            /\ dists' = dists
            /\ dists[d].inventory_item_id = b.inventory_item_id
            /\ dists[d].distributed_quantity = b.distributed_quantity
            /\ dists[d].class_id = b.class_id
            /\ dists[d].received_by = b.received_by
            /\ PairedRows(d) = {}
            /\ ledger' = ledger (+) One(row)
            /\ client[c].seen = CompletedNet(ledger, b.inventory_item_id)
            /\ CompletedNet(ledger', b.inventory_item_id)
                 = client[c].seen - b.distributed_quantity
            /\ \A j \in Items \ {b.inventory_item_id} :
                 CompletedNet(ledger', j) = CompletedNet(ledger, j)
    ]_vars

\* A Distribute of 2 succeeded and its ledger row is in the ledger.
C3_Witness ==
  /\ client[1].op = "Distribute"
  /\ client[1].pc = "done"
  /\ client[1].resp.code = 201
  /\ client[1].req.distributed_quantity = 2
  /\ PairedCount(client[1].did) = 1
  /\ \E r \in PairedRows(client[1].did) :
       r.qty_out = 2 /\ r.status = "completed" /\ r.transaction_type = "distribution"

\* C4: after UpdateDistribution(d, newQty) succeeded, the ledger row paired
\* with d is the only row that refers to d and its quantity_out is newQty, as
\* is the Distribution's distributed_quantity.
C4_UpdateRewritesPairedRow ==
  \A c \in Clients :
    (/\ client[c].op = "UpdateDistribution"
     /\ client[c].pc = "done"
     /\ client[c].resp.code = 200
     /\ client[c].req.distributed_quantity # {}) =>
       /\ PairedCount(client[c].did) = 1
       /\ \A r \in PairedRows(client[c].did) :
            /\ {r.qty_out} = client[c].req.distributed_quantity
            /\ dists[client[c].did].distributed_quantity = r.qty_out

\* An UpdateDistribution to 2 succeeded on a distribution of 1 (the stock was
\* 1, and is now negative): the paired row has quantity_out 2.
C4_Witness ==
  /\ client[1].op = "UpdateDistribution"
  /\ client[1].pc = "done"
  /\ client[1].resp.code = 200
  /\ client[1].req.distributed_quantity = {2}
  /\ \E r \in PairedRows(client[1].did) : r.qty_out = 2
  /\ CompletedNet(ledger, "i1") < 0

\* C5: whenever no request is in progress, the distributed_quantity of each
\* Distribution equals the quantity_out of every ledger row that refers to
\* it, whatever requests were served before: failed ones, and creations,
\* updates and deletions of ledger rows.
C5_PairedQuantitiesAgree ==
  (\A c \in Clients : CanStart(c)) =>
    \A d \in DistIds : \A r \in PairedRows(d) :
      r.qty_out = dists[d].distributed_quantity

\* C6: the stock check and the two writes of Distribute are separate steps, so
\* two calls for one item can interleave: each call that commits passed its
\* check against the stock it read, and a commit takes the stock below zero
\* only when the stock has fallen since that read, that is, when another
\* call committed in between (C6_Witness is the over-distribution).
C6_OverdrawOnlyByStaleCheck ==
  [][\A c \in Clients :
       (client[c].pc = "ledger_insert" /\ client'[c].pc = "done"
        /\ client'[c].resp.code = 201) =>
         /\ client[c].seen >= client[c].req.distributed_quantity
         /\ CompletedNet(ledger', client[c].req.inventory_item_id) < 0 =>
              client[c].seen > CompletedNet(ledger, client[c].req.inventory_item_id)
    ]_vars

\* Both clients' Distribute calls for item i1 succeeded, each with its own
\* Distribution, and the stock of i1 is negative.
C6_Witness ==
  /\ \A c \in Clients :
       /\ client[c].op = "Distribute"
       /\ client[c].pc = "done"
       /\ client[c].resp.code = 201
       /\ client[c].req.inventory_item_id = "i1"
  /\ client[1].did # client[2].did
  /\ PairedCount(client[1].did) = 1
  /\ PairedCount(client[2].did) = 1
  /\ CompletedNet(ledger, "i1") < 0

\* C7: a step in which Distribute answers a new request with 400 (a
\* validation error or insufficient stock) writes nothing: the Distribution
\* table and the ledger are as before, and so is every item's stock.
C7_RejectionWritesNothing ==
  [][\A c \in Clients :
       (/\ CanStart(c)
        /\ client'[c] # client[c]
        /\ client'[c].op = "Distribute"
        /\ client'[c].pc = "done"
        /\ client'[c].resp.code = 400) =>
         /\ dists' = dists
         /\ ledger' = ledger
         /\ logs' = logs
         /\ \A i \in Items : CompletedNet(ledger', i) = CompletedNet(ledger, i)
    ]_vars

\* A Distribute of 2 was answered insufficient-stock while the stock was 1.
C7_Witness ==
  /\ client[1].op = "Distribute"
  /\ client[1].pc = "done"
  /\ client[1].resp.code = 400
  /\ client[1].resp.err = "insufficient_stock"
  /\ client[1].req.distributed_quantity = 2
  /\ CompletedNet(ledger, client[1].req.inventory_item_id) = 1

\* A filter that is set must equal the row's column; the teacher filter is
\* compared with received_by of a Distribution and given_by of a collection.
DistMatches(d, f) ==
  /\ f.inventory_item_id # "" => d.inventory_item_id = f.inventory_item_id
  /\ f.class_id # "" => d.class_id = f.class_id
  /\ f.session_term_id # "" => d.session_term_id = f.session_term_id
  /\ f.teacher_id # "" => d.received_by = f.teacher_id

LogMatches(l, f) ==
  /\ l.received = TRUE
  /\ f.inventory_item_id # "" => l.inventory_item_id = f.inventory_item_id
  /\ f.class_id # "" => l.class_id = f.class_id
  /\ f.session_term_id # "" => l.session_term_id = f.session_term_id
  /\ f.teacher_id # "" => l.given_by = f.teacher_id

RECURSIVE DistributedTotal(_, _, _)
\* distributed_quantity summed over the first n Distributions that match f
\* and are of item i.
DistributedTotal(n, f, i) ==
  IF n = 0 THEN 0
  ELSE (IF DistMatches(dists[n], f) /\ dists[n].inventory_item_id = i
        THEN dists[n].distributed_quantity ELSE 0)
       + DistributedTotal(n - 1, f, i)

RECURSIVE CollectedTotal(_, _, _)
\* qty summed over the received collection rows that match f and are of item i.
CollectedTotal(bag, f, i) ==
  IF BagToSet(bag) = {} THEN 0
  ELSE LET l == CHOOSE x \in BagToSet(bag) : TRUE
       IN (IF LogMatches(l, f) /\ l.inventory_item_id = i THEN l.qty ELSE 0)
          + CollectedTotal(bag (-) One(l), f, i)

ItemsInScope(f) ==
  {dists[d].inventory_item_id : d \in {k \in DistIds : DistMatches(dists[k], f)}}
  \cup {l.inventory_item_id : l \in {x \in Rows(logs) : LogMatches(x, f)}}

EntriesReconcile(res, f) ==
  /\ {e.inventory_item_id : e \in res} = ItemsInScope(f)
  /\ Cardinality(res) = Cardinality(ItemsInScope(f))
  /\ \A e \in res :
       e.balance_quantity
         = DistributedTotal(Len(dists), f, e.inventory_item_id)
           - CollectedTotal(logs, f, e.inventory_item_id)

\* C8: for every filter combination, what GetDistributionSummary computes and
\* returns has exactly one entry for each item with a matching Distribution
\* or a matching received collection row, and no other entry; the entry's
\* balance is the quantity distributed in scope less the quantity collected in
\* scope, a side without rows counting as zero.
C8_OneEntryPerItemWithBalance ==
  /\ \A f \in Filters : EntriesReconcile(getDistributionSummary(f), f)
  /\ \A c \in Clients :
       (client[c].op = "GetDistributionSummary" /\ client[c].pc = "done") =>
         EntriesReconcile(client[c].resp.body, client[c].req)

\* An unfiltered summary was returned with two entries, an item with
\* distributions only and an item with collections only, while a collection
\* row that is not received is in the table.
C8_Witness ==
  /\ client[1].op = "GetDistributionSummary"
  /\ client[1].pc = "done"
  /\ client[1].req = Filter("", "", "", "")
  /\ Cardinality(client[1].resp.body) = 2
  /\ \E e \in client[1].resp.body :
       e.balance_quantity > 0 /\ CollectedTotal(logs, client[1].req, e.inventory_item_id) = 0
  /\ \E e \in client[1].resp.body :
       e.balance_quantity < 0 /\ DistributedTotal(Len(dists), client[1].req, e.inventory_item_id) = 0
  /\ \E l \in Rows(logs) : ~l.received

\* C9: in each entry GetDistributionSummary returned, the reported total
\* distributed is the sum of distributed_quantity over the matching
\* Distributions, and the reported total received is the sum of qty over the
\* matching collection rows that have received = true.
C9_ReportedTotals ==
  \A c \in Clients :
    (client[c].op = "GetDistributionSummary" /\ client[c].pc = "done") =>
      \A e \in client[c].resp.body :
        /\ e.total_distributed_quantity
             = DistributedTotal(Len(dists), client[c].req, e.inventory_item_id)
        /\ e.total_received_quantity
             = CollectedTotal(logs, client[c].req, e.inventory_item_id)

\* C10: what GetLowStockItems returned is exactly the set of items with a
\* threshold whose stock over completed ledger rows is at most the threshold.
C10_LowStockExact ==
  \A c \in Clients :
    (client[c].op = "GetLowStockItems" /\ client[c].pc = "done") =>
      \A i \in {j \in Items : low_stock_threshold[j] # NoThreshold} :
        (i \in {s.id : s \in client[c].resp.body})
          <=> CompletedNet(ledger, i) <= low_stock_threshold[i]

\* The quantity totals GetSummary reports for an item over a ledger.
StockTotals(bag, i) ==
  LET done == {r \in BagToSet(bag) : r.item_id = i /\ r.status = "completed"}
      tin == SumOver(bag, done, [r \in done |-> r.qty_in])
      tout == SumOver(bag, done, [r \in done |-> r.qty_out])
  IN <<tin - tout, tin, tout>>

ReportedTotals(i) ==
  {<<s.current_stock, s.total_in_quantity, s.total_out_quantity>> :
     s \in getInventorySummary(i)}

\* C11 (as amended): a step that creates a ledger row whose status is not
\* completed, or that changes a row whose status is not completed into a row
\* whose status is not completed, leaves the current_stock, total_in_quantity
\* and total_out_quantity that GetSummary reports unchanged for every item.
C11_OtherStatusesAreInert ==
  [][(/\ Rows(ledger' (-) ledger) # {}
      /\ \A r \in Rows(ledger' (-) ledger) : r.status # "completed"
      /\ \A r \in Rows(ledger (-) ledger') : r.status # "completed") =>
       \A i \in Items :
         /\ ReportedTotals(i)' = ReportedTotals(i)
         /\ ReportedTotals(i)' = {StockTotals(ledger', i)}
         /\ StockTotals(ledger', i) = StockTotals(ledger, i)
    ]_vars

\* The ledger holds a cancelled inflow and a pending row beside a completed
\* inflow of 1 of item i1, and GetSummary reports a stock of 1.
C11_Witness ==
  /\ \E r \in Rows(ledger) : r.item_id = "i1" /\ r.status = "cancelled" /\ r.qty_in > 0
  /\ \E r \in Rows(ledger) : r.item_id = "i1" /\ r.status = "pending"
  /\ ReportedTotals("i1") = {<<1, 1, 0>>}

\* C11 (as stated): a step that creates a row whose status is pending,
\* cancelled or deleted, or changes a row into one of such a status, leaves
\* the reported totals of every item unchanged.
C11_AsStated ==
  [][(/\ Rows(ledger' (-) ledger) # {}
      /\ \A r \in Rows(ledger' (-) ledger) :
           r.status \in {"pending", "cancelled", "deleted"}) =>
       \A i \in Items : ReportedTotals(i)' = ReportedTotals(i)
    ]_vars

\* C12: in every reachable state, after any sequence of ledger creations and
\* updates, Distribute and UpdateDistribution calls, no ledger row has both
\* quantity_in > 0 and quantity_out > 0.
C12_OneSidedRows ==
  \A r \in Rows(ledger) : ~(r.qty_in > 0 /\ r.qty_out > 0)

\* C13: run serially, a Distribute with valid arguments gets past the stock
\* check exactly when its quantity is at most the item's current stock, the
\* boundary quantity = stock included; otherwise it is answered
\* insufficient-stock and writes nothing.  So after a purchase of 100: 30
\* passes (stock 70 once written), then 80 is rejected at stock 70, then 70
\* passes and leaves the stock at 0.
C13_PassesUpToTheStock ==
  [][\A b \in ScenarioBodies :
       (client'[1].op = "Distribute" /\ DistributeCheck(1, b)) =>
         /\ (b.distributed_quantity <= CompletedNet(ledger, b.inventory_item_id))
              <=> (client'[1].pc = "dist_insert" /\ client'[1].req = b)
         /\ (b.distributed_quantity > CompletedNet(ledger, b.inventory_item_id))
              <=> (/\ client'[1].pc = "done"
                   /\ client'[1].resp.code = 400
                   /\ client'[1].resp.err = "insufficient_stock")
         /\ ledger' = ledger
         /\ dists' = dists
    ]_vars
  /\ [](\A c \in Clients :
          (client[c].op = "Distribute" /\ client[c].pc = "done"
           /\ client[c].resp.code = 201) =>
            /\ CompletedNet(ledger, client[c].req.inventory_item_id) >= 0
            /\ PairedCount(client[c].did) = 1)

\* One purchase of 100, then the distributions of 30 to c1 and of 70 to c2
\* were written, the second just now: the stock is 0.
C13_Witness ==
  /\ client[1].op = "Distribute"
  /\ client[1].pc = "done"
  /\ client[1].resp.code = 201
  /\ client[1].req.distributed_quantity = 70
  /\ Len(dists) = 2
  /\ dists[1].distributed_quantity = 30 /\ dists[1].class_id = "c1"
  /\ dists[2].distributed_quantity = 70 /\ dists[2].class_id = "c2"
  /\ BagCardinality(ledger) = 3
  /\ \E r \in Rows(ledger) : r.transaction_type = "purchase" /\ r.qty_in = 100
  /\ CompletedNet(ledger, "i1") = 0
  /\ StockOrZero("i1") = 0

\* C14: a Distribute whose class, item, term, quantity or receiving party is
\* missing, or whose quantity is not greater than 0, is answered with a 400
\* validation error and writes nothing, and no other request is answered
\* so; every Distribution in the table has all five fields and a
\* distributed_quantity greater than 0.
C14_InvalidDistributeRejected ==
  [][\A b \in DistributeBodies :
       (client'[1].op = "Distribute" /\ DistributeCheck(1, b)) =>
         LET invalid == \/ "" \in {b.class_id, b.inventory_item_id,
                                   b.session_term_id, b.received_by}
                        \/ b.distributed_quantity <= 0
         IN /\ invalid <=> (/\ client'[1].pc = "done"
                            /\ client'[1].resp.code = 400
                            /\ client'[1].resp.err = "validation")
            /\ invalid => (dists' = dists /\ ledger' = ledger)
    ]_vars
  /\ [](\A d \in DistIds :
          /\ dists[d].distributed_quantity > 0
          /\ "" \notin {dists[d].class_id, dists[d].inventory_item_id,
                        dists[d].session_term_id, dists[d].received_by})

\* A Distribute was answered with the validation error although the stock
\* would have allowed a distribution, as an earlier one shows.
C14_Witness ==
  /\ client[1].op = "Distribute"
  /\ client[1].pc = "done"
  /\ client[1].resp.code = 400
  /\ client[1].resp.err = "validation"
  /\ CompletedNet(ledger, "i1") >= 1
  /\ Len(dists) >= 1

\* The threshold of an item, a missing one counting as 0.
ThresholdOrZero(i) ==
  IF low_stock_threshold[i] = NoThreshold THEN 0 ELSE low_stock_threshold[i]

\* C15: for every item, the summary GetSummary computes and returns has
\* is_low_stock = true exactly when the item's current stock is at most its
\* low_stock_threshold, a missing threshold counting as 0.
C15_LowStockFlag ==
  /\ \A i \in Items : \A s \in getInventorySummary(i) :
       /\ s.is_low_stock <=> CompletedNet(ledger, i) <= ThresholdOrZero(i)
       /\ s.low_stock_threshold = ThresholdOrZero(i)
  /\ \A c \in Clients :
       (client[c].op = "GetSummary" /\ client[c].resp.code = 200) =>
         \A s \in client[c].resp.body :
           s.is_low_stock <=> CompletedNet(ledger, s.id) <= ThresholdOrZero(s.id)

\* GetSummary answered for the item without a threshold, which has no ledger
\* rows at all: stock 0 and low; the item with threshold 1 has stock 1 and
\* is low as well.
C15_Witness ==
  /\ client[1].op = "GetSummary"
  /\ client[1].resp.code = 200
  /\ client[1].req.item = "i2"
  /\ low_stock_threshold["i2"] = NoThreshold
  /\ \A r \in Rows(ledger) : r.item_id # "i2"
  /\ \E s \in client[1].resp.body : s.current_stock = 0 /\ s.is_low_stock
  /\ \E s \in getInventorySummary("i1") : s.current_stock = 1 /\ s.is_low_stock

AllZero(s) ==
  /\ s.current_stock = 0
  /\ s.total_in_quantity = 0
  /\ s.total_out_quantity = 0
  /\ s.total_in_cost = 0
  /\ s.total_out_cost = 0

NoCompletedRows(i) ==
  \A r \in Rows(ledger) : ~(r.item_id = i /\ r.status = "completed")

\* C16: GetSummary answers not-found exactly for an id that is not an item
\* of the catalog; for an item it answers with one summary, and when the item
\* has no completed ledger row the summary has current_stock 0 and quantity
\* and cost totals 0.
C16_NotFoundAndEmpty ==
  /\ getInventorySummary(GhostItem) = {}
  /\ \A i \in Items :
       /\ Cardinality(getInventorySummary(i)) = 1
       /\ NoCompletedRows(i) => \A s \in getInventorySummary(i) : AllZero(s)
  /\ \A c \in Clients :
       client[c].op = "GetSummary" =>
         /\ client[c].req.item \notin Items <=>
              (client[c].resp.code = 404 /\ client[c].resp.body = {})
         /\ client[c].req.item \in Items =>
              /\ client[c].resp.code = 200
              /\ Cardinality(client[c].resp.body) = 1
              /\ NoCompletedRows(client[c].req.item) =>
                   \A s \in client[c].resp.body :
                     s.id = client[c].req.item /\ AllZero(s)

\* GetSummary answered with zeros for item i1, whose only ledger rows are an
\* inflow and an outflow that are not completed.
C16_Witness ==
  /\ client[1].op = "GetSummary"
  /\ client[1].resp.code = 200
  /\ client[1].req.item = "i1"
  /\ NoCompletedRows("i1")
  /\ \E r \in Rows(ledger) : r.item_id = "i1" /\ r.qty_in > 0 /\ r.in_cost > 0
  /\ \E r \in Rows(ledger) : r.item_id = "i1" /\ r.qty_out > 0
  /\ \E s \in client[1].resp.body : AllZero(s)

\* The filter f with its teacher left out.
NoTeacher(f) == [f EXCEPT !.teacher_id = ""]

\* The Distributions of item i received by teacher t, and the received
\* collection rows of item i recorded by teacher t, within the other filters.
ReceivedBy(t, f, i) ==
  {d \in DistIds : /\ dists[d].received_by = t
                   /\ dists[d].inventory_item_id = i
                   /\ DistMatches(dists[d], NoTeacher(f))}

RECURSIVE RecordedBy(_, _, _, _)
RecordedBy(bag, t, f, i) ==
  IF BagToSet(bag) = {} THEN 0
  ELSE LET l == CHOOSE x \in BagToSet(bag) : TRUE
       IN (IF /\ l.given_by = t /\ l.inventory_item_id = i
              /\ LogMatches(l, NoTeacher(f))
           THEN l.qty ELSE 0)
          + RecordedBy(bag (-) One(l), t, f, i)

TeacherEntries(res, f) ==
  LET t == f.teacher_id
      keys == {i \in Items : ReceivedBy(t, f, i) # {} \/ RecordedBy(logs, t, f, i) > 0}
  IN /\ {e.inventory_item_id : e \in res} = keys
     /\ \A e \in res :
          /\ e.total_received_quantity
               = SumSet(ReceivedBy(t, f, e.inventory_item_id),
                        [d \in ReceivedBy(t, f, e.inventory_item_id)
                           |-> dists[d].distributed_quantity])
          /\ e.total_distributed_quantity = RecordedBy(logs, t, f, e.inventory_item_id)

\* C17: with a teacher filter, an entry's distribution side sums exactly the
\* Distributions whose received_by is the teacher and its collection side
\* sums exactly the received collection rows whose given_by is the teacher
\* (within the other filters); an item has an entry as soon as either side
\* has such a row, the other side then being 0.
C17_TeacherFilter ==
  /\ \A f \in {g \in Filters : g.teacher_id # ""} :
       TeacherEntries(getDistributionSummary(f), f)
  /\ \A c \in Clients :
       (/\ client[c].op = "GetDistributionSummary"
        /\ client[c].pc = "done"
        /\ client[c].req.teacher_id # "") =>
          TeacherEntries(client[c].resp.body, client[c].req)

\* The summary for teacher T1 has an entry with distributions only, for an
\* item another teacher recorded a collection of, and an entry with
\* collections only, for an item another teacher received.
C17_Witness ==
  /\ client[1].op = "GetDistributionSummary"
  /\ client[1].pc = "done"
  /\ client[1].req = Filter("", "", "", "T1")
  /\ \E e \in client[1].resp.body :
       /\ e.total_received_quantity > 0
       /\ e.total_distributed_quantity = 0
       /\ \E l \in Rows(logs) :
            l.received /\ l.inventory_item_id = e.inventory_item_id /\ l.given_by = "T2"
  /\ \E e \in client[1].resp.body :
       /\ e.total_received_quantity = 0
       /\ e.total_distributed_quantity > 0
       /\ \E d \in DistIds :
            dists[d].inventory_item_id = e.inventory_item_id /\ dists[d].received_by = "T2"

Occurrences(seq, x) == Cardinality({k \in DOMAIN seq : seq[k] = x})

SummarisedIds(res) == [k \in DOMAIN res |-> res[k].id]

Declares(b) ==
  /\ b.array
  /\ Len(b.records) > 0
  /\ \A k \in DOMAIN b.records :
       ~InvalidRecord(b.records[k]) /\ ~ViolatesCheck(b.records[k])

LastForItsTriple(records, k) ==
  \A j \in DOMAIN records : Triple(records[j]) = Triple(records[k]) => j <= k

AtMostOnePerTriple(table) ==
  \A r1, r2 \in table : Triple(r1) = Triple(r2) => r1 = r2

\* C19: a BulkUpsert that declares entitlements is never answered with an
\* error, whether or not its triples have rows; afterwards there is at most
\* one Entitlement per (class, item, term), the row of each declared triple
\* holds the quantity of the most recent record for it, and repeating the
\* call would leave the table as it is.
C19_UpsertOverwrites ==
  [][\A b \in UpsertBodies :
       (client'[1].op = "BulkUpsert" /\ BulkUpsert(1, b) /\ Declares(b)) =>
         /\ client'[1].resp.code = 200
         /\ AtMostOnePerTriple(entitlements')
         /\ \A k \in DOMAIN b.records :
              LastForItsTriple(b.records, k) =>
                EntitlementRow(b.records[k]) \in entitlements'
         /\ Upsert(entitlements', b.records) = entitlements']_vars

\* What a Distribute call with body b does when it runs in the current state:
\* its answer and the two rows it writes when it is accepted.
DistributeOutcome(b) ==
  IF MissingRequired(b) \/ b.distributed_quantity <= 0
  THEN [code |-> 400, err |-> "validation", writes |-> {}]
  ELSE IF Insufficient(StockOrZero(b.inventory_item_id), b.distributed_quantity)
  THEN [code |-> 400, err |-> "insufficient_stock", writes |-> {}]
  ELSE [code |-> 201, err |-> "",
        writes |-> {DistributionRow(b),
                    DistributionTransaction(DistributionRow(b), Len(dists) + 1)}]

\* C20: entitlements never influence distribution.  A step that changes
\* the Entitlement records changes nothing else, and in the two states,
\* which differ only in those records, every Distribute call has the same
\* outcome and the same writes; a Distribute call that runs is answered and
\* writes as that outcome says, whatever entitlement is declared.
C20_EntitlementsDoNotInfluence ==
  [][/\ entitlements' # entitlements =>
          /\ UNCHANGED <<ledger, dists, logs, edits>>
          /\ \A b \in EntitledDistributeBodies : DistributeOutcome(b)' = DistributeOutcome(b)
     /\ \A b \in EntitledDistributeBodies :
          (client'[1].op = "Distribute" /\ DistributeCheck(1, b)) =>
            /\ UNCHANGED entitlements
            /\ IF DistributeOutcome(b).code = 201
               THEN client'[1].pc = "dist_insert"
               ELSE /\ client'[1].pc = "done"
                    /\ client'[1].resp.code = DistributeOutcome(b).code
                    /\ client'[1].resp.err = DistributeOutcome(b).err
     /\ (client[1].pc = "dist_insert" /\ dists' # dists) =>
          /\ dists' = Append(dists, DistributionRow(client[1].req))
          /\ DistributionRow(client[1].req) \in DistributeOutcome(client[1].req).writes
          /\ UNCHANGED <<ledger, entitlements>>
     /\ (client[1].pc = "ledger_insert" /\ ledger' # ledger) =>
          /\ ledger' = ledger (+) One(DistributionTransaction(
                                        DistributionRow(client[1].req), Len(dists)))
          /\ client'[1].resp.code = 201
          /\ UNCHANGED <<dists, entitlements>>]_vars

\* A Distribute of 2 was accepted and wrote its two rows while the entitlement
\* of its triple was 1, and a row of another triple exists as well.
C20_Witness ==
  /\ client[1].op = "Distribute"
  /\ client[1].pc = "done"
  /\ client[1].resp.code = 201
  /\ client[1].req.distributed_quantity = 2
  /\ \E e \in entitlements : Triple(e) = Triple(client[1].req) /\ e.quantity = 1
  /\ \E e \in entitlements : Triple(e) # Triple(client[1].req)
  /\ \E r \in Rows(ledger) : r.transaction_type = "distribution" /\ r.qty_out = 2

\* C21: when the ledger insert of a Distribute fails after its Distribution
\* was inserted, the Distribution stays in its table without a paired ledger
\* row, the ledger and the item's current stock are as they were before the
\* insert was tried, and the caller is answered 500.
C21_FailedLedgerInsertLeavesDistribution ==
  [][(client[1].pc = "ledger_insert" /\ ledger' = ledger) =>
       LET id == client[1].did
           item == client[1].req.inventory_item_id
       IN /\ client'[1].pc = "done"
          /\ client'[1].resp.code = 500
          /\ dists' = dists
          /\ id \in DistIds
          /\ dists'[id] = DistributionRow(client[1].req)
          /\ PairedRows(id)' = {}
          /\ StockOrZero(item)' = StockOrZero(item)
          /\ StockOrZero(item)' >= client[1].req.distributed_quantity]_vars

\* A Distribute of 2 was answered 500: its Distribution is in the table, no
\* ledger row refers to it and the stock is still 2.
C21_Witness ==
  /\ client[1].op = "Distribute"
  /\ client[1].pc = "done"
  /\ client[1].resp.code = 500
  /\ client[1].req.distributed_quantity = 2
  /\ client[1].did \in DistIds
  /\ dists[client[1].did] = DistributionRow(client[1].req)
  /\ PairedRows(client[1].did) = {}
  /\ StockOrZero(client[1].req.inventory_item_id) = 2

\* The ledger rows of kind distribution, each with its number of copies.
DistributionKind(bag) ==
  [r \in {x \in Rows(bag) : x.transaction_type = "distribution"} |-> CopiesIn(r, bag)]

\* C22: a step of a direct ledger operation (create, update by id, delete by
\* id) leaves the ledger rows of kind distribution exactly as they were: it
\* creates none, turns no row into one, and changes or deletes none.
C22_OnlyCoordinatorWritesDistributionRows ==
  [][client'[1].op \in {"PostTransaction", "PutTransaction", "DeleteTransaction"} =>
       DistributionKind(ledger') = DistributionKind(ledger)]_vars

\* C23: whenever no request is in progress, each Distribution has exactly one
\* ledger row whose distribution_id is its id, and every ledger row with a
\* distribution_id refers to a Distribution of the table and is of kind
\* distribution.
C23_OneLedgerRowPerDistribution ==
  (\A c \in Clients : CanStart(c)) =>
    /\ \A d \in DistIds : PairedCount(d) = 1
    /\ \A r \in Rows(ledger) :
         r.distribution_id # NoDist =>
           r.distribution_id \in DistIds /\ r.transaction_type = "distribution"

ReadOps == {"GetSummary", "GetBulk", "GetLowStockItems", "GetDistributionSummary"}

\* C24: a step of GetSummary, of the bulk summary, of GetLowStockItems or of
\* GetDistributionSummary leaves the ledger, the Distribution table and the
\* StudentCollection table exactly as they were, whether it answers with a
\* result or with an error.
C24_ReadsNeverWrite ==
  [][client'[1].op \in ReadOps =>
       /\ ledger' = ledger
       /\ dists' = dists
       /\ logs' = logs]_vars

\* GetDistributionSummary has answered over tables that all hold rows, one of
\* them a received collection row that its filter matches.
C24_Witness ==
  /\ client[1].op = "GetDistributionSummary"
  /\ client[1].pc = "done"
  /\ client[1].resp.body # {}
  /\ ledger # EmptyBag
  /\ Len(dists) > 0
  /\ \E l \in Rows(logs) : l.received /\ l \in MatchingLogs(client[1].req)

\* A ledger row without the column UpdateDistribution may rewrite.
WithoutQtyOut(r) == [r EXCEPT !.qty_out = 0]

\* C25: UpdateDistribution(id, body) changes no Distribution but the one with
\* that id, and no ledger row but those whose distribution_id is id, of which
\* it changes qty_out only (item, kind, status and costs stay); for an id no
\* Distribution has it answers 404 and leaves both tables as they were.
C25_UpdateTouchesOnlyItsPair ==
  [][/\ (CanStart(1) /\ client'[1].op = "UpdateDistribution") =>
          /\ ledger' = ledger
          /\ Len(dists') = Len(dists)
          /\ client'[1].pc = "done" => (client'[1].resp.code = 404 /\ dists' = dists)
          /\ client'[1].pc # "done" =>
               /\ client'[1].did \in DistIds
               /\ \A k \in DistIds : k # client'[1].did => dists'[k] = dists[k]
          /\ \A id \in 1..(MaxDist + 1) \ DistIds, b \in UpdateItemBodies :
               UpdateDistribution(1, id, b) =>
                 /\ client'[1].pc = "done"
                 /\ client'[1].resp.code = 404
                 /\ dists' = dists
     /\ client[1].pc = "update_ledger" =>
          LET id == client[1].did
          IN /\ dists' = dists
             /\ \A r \in Rows(ledger) \cup Rows(ledger') :
                  r.distribution_id # id => CopiesIn(r, ledger') = CopiesIn(r, ledger)
             /\ PairedCount(id)' = PairedCount(id)
             /\ {WithoutQtyOut(r) : r \in PairedRows(id)'}
                  = {WithoutQtyOut(r) : r \in PairedRows(id)}]_vars

\* An UpdateDistribution that names another item and the quantity 2 has
\* succeeded on the second of two Distributions: its paired row has qty_out 2
\* and its old item, the purchase row is in the ledger as it was written, and
\* the first Distribution is as Distribute wrote it.
C25_Witness ==
  /\ client[1].op = "UpdateDistribution"
  /\ client[1].pc = "done"
  /\ client[1].resp.code = 200
  /\ client[1].did = 2
  /\ client[1].req = [distributed_quantity |-> {2}, inventory_item_id |-> {"i2"}]
  /\ Len(dists) = 2
  /\ dists[1] = DistributionRow(DistributeBody("c1", "i1", "t1", 1, "T1"))
  /\ dists[2].distributed_quantity = 2
  /\ dists[2].inventory_item_id = "i2"
  /\ \E r \in PairedRows(2) : r.qty_out = 2 /\ r.item_id = "i1" /\ r.status = "completed"
  /\ BagIn(TransactionRow(PostBody("i1", "purchase", 1, 0, "completed")), ledger)

\* C26: when the Distribution insert of a Distribute fails, no ledger row is
\* written, the item's current stock is unchanged, no Distribution is added,
\* and the caller is answered with an error.
C26_FailedFirstInsertAnswersError ==
  [][(client[1].pc = "dist_insert" /\ dists' = dists) =>
       /\ ledger' = ledger
       /\ StockOrZero(client[1].req.inventory_item_id)'
            = StockOrZero(client[1].req.inventory_item_id)
       /\ client'[1].pc = "done"
       /\ client'[1].resp.code >= 400]_vars

\* C27: in a serial execution of completed purchases, stock-checked sales,
\* Distribute calls and UpdateDistribution calls, the current stock of every
\* item is at least 0 in every state.
C27_StockNeverNegative ==
  \A i \in Items : CompletedNet(ledger, i) >= 0 /\ StockOrZero(i) >= 0

\* The status column of the row a create with body b stores.
StoredStatus(b) == IF b.status = "" THEN "pending" ELSE b.status

\* C28: a sale gets past the stock check of the ledger create exactly when
\* its qty_out is at most the item's current stock; the row a create writes
\* has the status of the body, or pending when the body has none, and changes
\* the current stock of its item by qty_in - qty_out when that status is
\* completed and of no item otherwise; and a Distribute is checked against
\* that stock, which rows that are not completed have left undiminished.
C28_OnlyCompletedCreatesMoveStock ==
  [][/\ \A b \in CreateBodies :
          (client'[1].op = "PostTransaction" /\ b.transaction_type = "sale"
           /\ PostTransaction(1, b)) =>
            (client'[1].pc = "sale_insert" <=> b.qty_out <= CompletedNet(ledger, b.item_id))
     /\ \A b \in CreateBodies :
          (/\ client'[1].op = "PostTransaction"
           /\ ledger' # ledger
           /\ PostTransaction(1, b) \/ (client[1].req = b /\ PostSaleInsert(1))) =>
            /\ \E r \in Rows(ledger') :
                 /\ ledger' = ledger (+) One(r)
                 /\ r.status = StoredStatus(b)
                 /\ r.item_id = b.item_id
                 /\ r.qty_in = b.qty_in /\ r.qty_out = b.qty_out
            /\ \A i \in Items :
                 CompletedNet(ledger', i) - CompletedNet(ledger, i)
                   = IF b.status = "completed" /\ i = b.item_id
                     THEN b.qty_in - b.qty_out ELSE 0
     /\ \A b \in GoodDistributeBodies :
          (client'[1].op = "Distribute" /\ DistributeCheck(1, b)) =>
            (client'[1].pc = "dist_insert"
               <=> b.distributed_quantity <= CompletedNet(ledger, b.inventory_item_id))
    ]_vars

\* A Distribute of the whole stock of 1 was accepted although the ledger holds
\* a sale of 1 that was created without a status and is stored as pending.
C28_Witness ==
  /\ client[1].op = "Distribute"
  /\ client[1].pc = "done"
  /\ client[1].resp.code = 201
  /\ client[1].req.distributed_quantity = 1
  /\ BagIn(TransactionRow(PostBody("i1", "purchase", 1, 0, "completed")), ledger)
  /\ \E r \in Rows(ledger) :
       r.transaction_type = "sale" /\ r.status = "pending" /\ r.qty_out = 1
  /\ CompletedNet(ledger, "i1") = 0

\* C29: whenever no request is in progress, every ledger row paired with a
\* Distribution has the Distribution's item, also after an UpdateDistribution
\* whose body names another item.
C29_PairedRowHasTheItem ==
  (\A c \in Clients : CanStart(c)) =>
    \A d \in DistIds : \A r \in PairedRows(d) :
      r.item_id = dists[d].inventory_item_id

\* C30: in every state and for every filter, get_inventory_balance and
\* getDistributionSummary report, for each item that has a matching
\* Distribution, the same total distributed to classes, the same total
\* received by students and the same balance.
C30_BalanceReportsAgree ==
  \A f \in QueryFilters :
    \A i \in {dists[k].inventory_item_id : k \in MatchingDistributions(f)} :
      \E e \in get_inventory_balance(f) :
        /\ e.inventory_item_id = i
        /\ e.total_distributed = SummaryEntry(i, f).total_received_quantity
        /\ e.total_issued_to_students = SummaryEntry(i, f).total_distributed_quantity
        /\ e.balance_quantity = SummaryEntry(i, f).balance_quantity

====
